---- MODULE Spec2Model ----
(***************************************************************************)
(* Model of the command routing subsystem of src/kook_api.py               *)
(* (class CommandHandler): the registry of commands, aliases and           *)
(* permissions, parse_command, execute_command, _check_permission,         *)
(* process_message and set_command_prefix; and of the batched send of      *)
(* class MessageSender: send_text and the loop of send_multiple.           *)
(*                                                                         *)
(* Strings are sequences of one-character strings, so that startswith,     *)
(* strip, split and lower are computed character by character.  Fixed      *)
(* texts of the program (its Chinese result texts, the built-in aliases)   *)
(* are written as ASCII chunks; the original text is given in a comment.   *)
(* A Python dict is a function whose DOMAIN is the set of its keys.        *)
(***************************************************************************)
EXTENDS Integers, Sequences, FiniteSets, TLC

VARIABLES
    commands,        \* self.commands   : name -> {func, description, usage, permission_level}
    aliases,         \* self.aliases    : alias -> name
    permissions,     \* self.permissions: name -> permission_level
    command_prefix,  \* self.command_prefix
    command_info,    \* the dict parse_command returned last (the host holds it until execute_command)
    op,              \* the public method called last
    ok,              \* the bool returned by the last register/unregister/set_command_prefix call
    result,          \* the str returned by the last execute_command/process_message call
    arg_name,        \* the name argument of the last call, if it was register/unregister_command
    arg_message,     \* the message argument of the last call, if it was parse_command
    arg_user,        \* the user_info argument of the last call, if it was execute_command
    removed_aliases, \* history: the aliases the last call removed, if it was unregister_command
    registered_against, \* history: the pairs <<alias, name>> that register_command stored
                        \* since name was last absent from the registry
    last_target,     \* history: alias -> the name of the latest registration of the alias
    config_channel,  \* config_manager.get_channel_id()
    sm_pc,           \* send_multiple: "idle" before the call, "loop" in its for loop, "done" after it
    sm_messages,     \* send_multiple: the messages argument
    sm_channel,      \* send_multiple: the channel_id argument
    sm_i,            \* send_multiple: the index i of the next loop iteration (from 1)
    sm_results,      \* send_multiple: the results dict
    sm_events        \* history: the send_text calls, transport calls, skipped entries
                     \* and time.sleep calls of send_multiple, in order

routerVars == <<commands, aliases, permissions, command_prefix, command_info,
                op, ok, result, arg_name, arg_message, arg_user,
                removed_aliases, registered_against, last_target>>

senderVars == <<config_channel, sm_pc, sm_messages, sm_channel, sm_i, sm_results,
                sm_events>>

vars == <<routerVars, senderVars>>

-----------------------------------------------------------------------------
(* Bounds of the model *)

\* longest message handed to parse_command / process_message
MaxMsgLen == 3
\* longest alias list handed to register_command
MaxAliases == 2
\* longest message list handed to send_multiple
MaxBatch == 3

-----------------------------------------------------------------------------
(* Strings *)

\* the characters messages are made of
Chars == {"!", " ", "a", "A", "h"}

\* str.isspace for one character
IsSpace(c) == c = " "

\* str.lower for one character
LowerChar(c) == IF c = "A" THEN "a" ELSE c

\* str.lower
lower(s) == [i \in DOMAIN s |-> LowerChar(s[i])]

\* str.startswith
startswith(s, p) == Len(s) >= Len(p) /\ SubSeq(s, 1, Len(p)) = p

RECURSIVE lstrip(_)
lstrip(s) ==
    IF s = <<>> THEN <<>>
    ELSE IF IsSpace(Head(s)) THEN lstrip(Tail(s)) ELSE s

RECURSIVE rstrip(_)
rstrip(s) ==
    IF s = <<>> THEN <<>>
    ELSE IF IsSpace(s[Len(s)]) THEN rstrip(SubSeq(s, 1, Len(s) - 1)) ELSE s

\* str.strip()
strip(s) == rstrip(lstrip(s))

\* length of the leading run of non-whitespace characters of s
RECURSIVE TokenLen(_)
TokenLen(s) ==
    IF s = <<>> \/ IsSpace(Head(s)) THEN 0 ELSE 1 + TokenLen(Tail(s))

\* str.split(): the maximal runs of non-whitespace characters, in order
RECURSIVE split(_)
split(s) ==
    LET t == lstrip(s) IN
    IF t = <<>> THEN <<>>
    ELSE <<SubSeq(t, 1, TokenLen(t))>> \o split(SubSeq(t, TokenLen(t) + 1, Len(t)))

\* ' '.join(args)
RECURSIVE join(_)
join(args) ==
    IF args = <<>> THEN <<>>
    ELSE IF Len(args) = 1 THEN args[1]
    ELSE args[1] \o <<" ">> \o join(Tail(args))

\* all sequences over S of length at most n
SeqsUpTo(S, n) == UNION {[1..k -> S] : k \in 0..n}

-----------------------------------------------------------------------------
(* Python dicts *)

EmptyDict == [k \in {} |-> TRUE]

\* d[k] = v
Put(d, k, v) == [x \in (DOMAIN d) \cup {k} |-> IF x = k THEN v ELSE d[x]]

\* del d[k]
Del(d, k) == [x \in (DOMAIN d) \ {k} |-> d[x]]

\* d.get(k, default)
Get(d, k, default) == IF k \in DOMAIN d THEN d[k] ELSE default

-----------------------------------------------------------------------------
(* Values *)

\* an argument that is not hashable (a list, say): using it as a dict key raises TypeError
Unhashable == <<"<unhashable>">>

\* the handlers: the three built-in ones, a host handler that returns "pong"
\* and a host handler that raises
HostFuncs == {"returns", "raises"}

\* user_info: None, or a dict that may hold is_admin and is_super_admin
NoUser == [present |-> FALSE, dict |-> EmptyDict]
UserDicts == UNION {[K -> BOOLEAN] : K \in SUBSET {"is_admin", "is_super_admin"}}
UserInfos == {NoUser} \cup {[present |-> TRUE, dict |-> d] : d \in UserDicts}

\* "权限不足，无法执行此命令"
PermissionDenied == <<"permission denied, cannot execute this command">>
\* "命令无效"
InvalidCommand == <<"invalid command">>
\* "未知命令: "
UnknownCommandText == <<"unknown command: ">>

-----------------------------------------------------------------------------
(* The registry: register_command and unregister_command *)

\* add_aliases with a bug: an alias that is already stored is left as it is
RECURSIVE add_aliases_keep_existing(_, _, _)
add_aliases_keep_existing(al, list, name) ==
    IF list = <<>> THEN [aliases |-> al, raised |-> FALSE]
    ELSE IF Head(list) = Unhashable THEN [aliases |-> al, raised |-> TRUE]
    ELSE add_aliases_keep_existing(
             IF Head(list) \in DOMAIN al THEN al ELSE Put(al, Head(list), name),
             Tail(list), name)

\* the for loop of register_command over the alias list: each alias is stored
\* in turn; an unhashable alias raises TypeError and ends the loop
RECURSIVE add_aliases(_, _, _)
add_aliases(al, list, name) ==
    IF list = <<>> THEN [aliases |-> al, raised |-> FALSE]
    ELSE IF Head(list) = Unhashable THEN [aliases |-> al, raised |-> TRUE]
    ELSE add_aliases(Put(al, Head(list), name), Tail(list), name)

\* register_command with a bug: the permission tier is not stored in the
\* permissions map
register_command_skips_permissions(reg, name, func, description, usage, als, permission_level) ==
    IF name = Unhashable
    THEN [commands |-> reg.commands, aliases |-> reg.aliases,
          permissions |-> reg.permissions, ret |-> FALSE]
    ELSE LET loop == add_aliases(reg.aliases, als, name) IN
         [commands |-> Put(reg.commands, name,
                           [func |-> func, description |-> description,
                            usage |-> usage, permission_level |-> permission_level]),
          aliases |-> loop.aliases,
          permissions |-> reg.permissions,
          ret |-> ~loop.raised]

\* register_command on the registry reg = [commands, aliases, permissions]:
\* the registry it leaves and the bool it returns
register_command(reg, name, func, description, usage, als, permission_level) ==
    IF name = Unhashable
    THEN \* `name in self.commands` raises TypeError, caught: return False
         [commands |-> reg.commands, aliases |-> reg.aliases,
          permissions |-> reg.permissions, ret |-> FALSE]
    ELSE LET loop == add_aliases(reg.aliases, als, name) IN
         [commands |-> Put(reg.commands, name,
                           [func |-> func, description |-> description,
                            usage |-> usage, permission_level |-> permission_level]),
          aliases |-> loop.aliases,
          permissions |-> Put(reg.permissions, name, permission_level),
          ret |-> ~loop.raised]

\* unregister_command with a bug: the aliases of the command are left in the alias map
unregister_command_keeps_aliases(reg, name) ==
    IF name = Unhashable \/ name \notin DOMAIN reg.commands
    THEN [commands |-> reg.commands, aliases |-> reg.aliases,
          permissions |-> reg.permissions, ret |-> FALSE]
    ELSE [commands |-> Del(reg.commands, name), aliases |-> reg.aliases,
          permissions |-> Del(reg.permissions, name), ret |-> TRUE]

\* unregister_command on the registry reg
unregister_command(reg, name) ==
    IF name = Unhashable \/ name \notin DOMAIN reg.commands
    THEN [commands |-> reg.commands, aliases |-> reg.aliases,
          permissions |-> reg.permissions, ret |-> FALSE]
    ELSE LET aliases_to_remove == {a \in DOMAIN reg.aliases : reg.aliases[a] = name} IN
         [commands |-> Del(reg.commands, name),
          aliases |-> [a \in (DOMAIN reg.aliases) \ aliases_to_remove |-> reg.aliases[a]],
          permissions |-> Del(reg.permissions, name),
          ret |-> TRUE]

\* the registry of the current state
Registry == [commands |-> commands, aliases |-> aliases, permissions |-> permissions]

\* the built-in aliases "帮助", "状态", "测试"
AliasBangzhu == <<"bang", "zhu">>
AliasZhuangtai == <<"zhuang", "tai">>
AliasCeshi == <<"ce", "shi">>

NameHelp == <<"h", "e", "l", "p">>
NameStatus == <<"s", "t", "a", "t", "u", "s">>
NameTest == <<"t", "e", "s", "t">>

\* "显示帮助信息", "[命令名]", "显示机器人状态", "测试机器人连接"
DescHelp == <<"show help">>
UsageHelp == <<"[command name]">>
DescStatus == <<"show bot status">>
DescTest == <<"test bot connection">>

\* the registry __init__ builds: empty dicts, then _register_builtin_commands
register_builtin_commands ==
    LET r0 == [commands |-> EmptyDict, aliases |-> EmptyDict, permissions |-> EmptyDict]
        r1 == register_command(r0, NameHelp, "_help_command", DescHelp, UsageHelp,
                               <<<<"h">>, AliasBangzhu>>, 0)
        r2 == register_command(r1, NameStatus, "_status_command", DescStatus, <<>>,
                               <<AliasZhuangtai, <<"s", "t", "a", "t">>>>, 0)
    IN  register_command(r2, NameTest, "_test_command", DescTest, <<>>,
                         <<AliasCeshi>>, 0)

-----------------------------------------------------------------------------
(* The router: parse_command, _check_permission, execute_command,
   process_message, set_command_prefix *)

\* the alias lookup of parse_command: self.aliases.get(token, token)
Resolve(al, token) == Get(al, token, token)

\* parse_command with a bug: the message is trimmed before the prefix is looked for
parse_command_trimmed(prefix, al, cmds, message) ==
    IF ~startswith(strip(message), prefix) THEN [is_command |-> FALSE]
    ELSE LET content == strip(SubSeq(strip(message), Len(prefix) + 1, Len(strip(message)))) IN
         IF content = <<>> THEN [is_command |-> FALSE]
         ELSE LET parts == split(content)
                  command_name == lower(parts[1])
                  actual_command == Resolve(al, command_name)
              IN  IF actual_command \notin DOMAIN cmds
                  THEN [is_command |-> TRUE, valid |-> FALSE,
                        command_name |-> command_name,
                        error |-> UnknownCommandText \o command_name]
                  ELSE [is_command |-> TRUE, valid |-> TRUE,
                        command_name |-> actual_command,
                        original_name |-> command_name,
                        args |-> Tail(parts), raw_args |-> join(Tail(parts))]

\* parse_command under the prefix, alias map al and command map cmds
parse_command(prefix, al, cmds, message) ==
    IF ~startswith(message, prefix) THEN [is_command |-> FALSE]
    ELSE LET content == strip(SubSeq(message, Len(prefix) + 1, Len(message))) IN
         IF content = <<>> THEN [is_command |-> FALSE]
         ELSE LET parts == split(content)
                  command_name == lower(parts[1])
                  args == Tail(parts)
                  actual_command == Resolve(al, command_name)
              IN  IF actual_command \notin DOMAIN cmds
                  THEN [is_command |-> TRUE, valid |-> FALSE,
                        command_name |-> command_name,
                        error |-> UnknownCommandText \o command_name]
                  ELSE [is_command |-> TRUE, valid |-> TRUE,
                        command_name |-> actual_command,
                        original_name |-> command_name,
                        args |-> args, raw_args |-> join(args)]

\* `not user_info`: None and the empty dict are both falsy
Falsy(user_info) == ~user_info.present \/ DOMAIN user_info.dict = {}

\* _check_permission with a bug: a super admin also passes tier 1
check_permission_escalating(perms, command_name, user_info) ==
    IF command_name \notin DOMAIN perms THEN FALSE
    ELSE LET required_level == perms[command_name] IN
         IF required_level = 0 THEN TRUE
         ELSE IF Falsy(user_info) THEN FALSE
         ELSE IF required_level = 1 /\ (Get(user_info.dict, "is_admin", FALSE)
                                        \/ Get(user_info.dict, "is_super_admin", FALSE)) THEN TRUE
         ELSE IF required_level = 2 /\ Get(user_info.dict, "is_super_admin", FALSE) THEN TRUE
         ELSE FALSE

\* _check_permission under the permission map perms
check_permission(perms, command_name, user_info) ==
    IF command_name \notin DOMAIN perms THEN FALSE
    ELSE LET required_level == perms[command_name] IN
         IF required_level = 0 THEN TRUE
         ELSE IF Falsy(user_info) THEN FALSE
         ELSE IF required_level = 1 /\ Get(user_info.dict, "is_admin", FALSE) THEN TRUE
         ELSE IF required_level = 2 /\ Get(user_info.dict, "is_super_admin", FALSE) THEN TRUE
         ELSE FALSE

\* what the host handler "returns" returns, and what the host handler "raises" raises
Pong == <<"pong">>
Boom == <<"boom">>

\* the texts of the built-in handlers, abridged to what tells them apart
\* _help_command: detail of one command, "未知命令: x", or the command list
help_command(reg, args) ==
    IF args # <<>>
    THEN LET command_name == lower(args[1])
             actual_command == Get(reg.aliases, command_name, command_name)
         IN  IF actual_command \in DOMAIN reg.commands
             THEN <<"**command: ">> \o actual_command \o <<"**">>
             ELSE UnknownCommandText \o command_name
    ELSE <<"**available commands:**">>

\* _test_command: conn is what kook_api.test_connection() answers
test_command(conn) ==
    IF conn THEN <<"connection ok">> ELSE <<"connection failed, check the configuration">>

\* _status_command
status_command(conn) ==
    <<"**bot status**">> \o (IF conn THEN <<"API ok">> ELSE <<"API failed">>)

\* func(args, raw_args): whether it raised, and the value returned or the exception text
call_handler(reg, func, args, raw_args, conn) ==
    IF func = "_help_command" THEN [raised |-> FALSE, value |-> help_command(reg, args)]
    ELSE IF func = "_status_command" THEN [raised |-> FALSE, value |-> status_command(conn)]
    ELSE IF func = "_test_command" THEN [raised |-> FALSE, value |-> test_command(conn)]
    ELSE IF func = "returns" THEN [raised |-> FALSE, value |-> Pong]
    ELSE [raised |-> TRUE, value |-> Boom]

\* error_msg with a bug: the text does not name the command
error_msg_anonymous(command_name, e) == <<"error executing command: ">> \o e

\* "执行命令 '{command_name}' 时出错: {e}"
error_msg(command_name, e) ==
    <<"error executing command '">> \o command_name \o <<"': ">> \o e

\* execute_command on the registry reg: the string it returns
execute_command(reg, info, user_info, conn) ==
    IF ~Get(info, "valid", FALSE) THEN Get(info, "error", InvalidCommand)
    ELSE LET command_name == info.command_name IN
         IF ~check_permission(reg.permissions, command_name, user_info)
         THEN PermissionDenied
         ELSE IF command_name \notin DOMAIN reg.commands
              THEN \* self.commands[command_name] raises KeyError, caught
                   error_msg(command_name, <<"'">> \o command_name \o <<"'">>)
              ELSE LET r == call_handler(reg, reg.commands[command_name].func,
                                         info.args, info.raw_args, conn)
                   IN  IF r.raised THEN error_msg(command_name, r.value) ELSE r.value

\* process_message with a bug: a message that is not a command is answered
\* like an invalid one
process_message_always_replies(reg, prefix, message, user_info, conn) ==
    LET info == parse_command(prefix, reg.aliases, reg.commands, message) IN
    IF ~info.is_command THEN InvalidCommand
    ELSE IF ~info.valid THEN info.error
    ELSE execute_command(reg, info, user_info, conn)

\* process_message on the registry reg under the prefix: the string it returns
process_message(reg, prefix, message, user_info, conn) ==
    LET info == parse_command(prefix, reg.aliases, reg.commands, message) IN
    IF ~info.is_command THEN <<>>
    ELSE IF ~info.valid THEN info.error
    ELSE execute_command(reg, info, user_info, conn)

\* set_command_prefix with a bug: a prefix of the longest length is refused
set_command_prefix_off_by_one(old, prefix) ==
    IF prefix = <<>> \/ Len(prefix) >= 3
    THEN [command_prefix |-> old, ret |-> FALSE]
    ELSE [command_prefix |-> prefix, ret |-> TRUE]

\* the longest prefix set_command_prefix accepts
MaxPrefixLen == 3

\* set_command_prefix: the prefix it leaves and the bool it returns
set_command_prefix(old, prefix) ==
    IF prefix = <<>> \/ Len(prefix) > MaxPrefixLen
    THEN [command_prefix |-> old, ret |-> FALSE]
    ELSE [command_prefix |-> prefix, ret |-> TRUE]

-----------------------------------------------------------------------------
(* The sender: send_text and send_multiple *)

\* channel ids: None, the empty string, an id
ChannelNone == "<None>"
ChannelIds == {ChannelNone, "", "chan"}

\* what requests.post / response.json() do: code 0, another code, an exception
Outcomes == {"code0", "code_nonzero", "exception"}

\* the channel send_text sends to: the argument, or the configured one if it is None
EffectiveChannel(channel_id, config) ==
    IF channel_id = ChannelNone THEN config ELSE channel_id

\* send_text: the bool it returns and whether it called requests.post
send_text(content, channel_id, config, outcome) ==
    IF EffectiveChannel(channel_id, config) \in {ChannelNone, ""}
    THEN [ret |-> FALSE, posted |-> FALSE]
    ELSE IF strip(content) = <<>>
    THEN [ret |-> FALSE, posted |-> FALSE]
    ELSE [ret |-> outcome = "code0", posted |-> TRUE]

\* one iteration of the for loop of send_multiple with a bug: the loop ends
\* at the first send that fails
send_multiple_step_aborts(st, messages, channel_id, config, outcome) ==
    LET message == messages[st.i] IN
    IF strip(message) = <<>>
    THEN [i |-> st.i + 1,
          results |-> Put(st.results, message, FALSE),
          events |-> Append(st.events, <<"skip", message>>)]
    ELSE LET r == send_text(message, channel_id, config, outcome) IN
         [i |-> IF r.ret THEN st.i + 1 ELSE Len(messages) + 1,
          results |-> Put(st.results, message, r.ret),
          events |-> st.events \o <<<<"send_text", message>>>>
                       \o (IF r.posted THEN <<<<"post", strip(message)>>>> ELSE <<>>)
                       \o (IF st.i < Len(messages) THEN <<<<"sleep", <<>>>>>> ELSE <<>>)]

\* one iteration of the for loop of send_multiple on st = [i, results, events]
send_multiple_step(st, messages, channel_id, config, outcome) ==
    LET message == messages[st.i] IN
    IF strip(message) = <<>>
    THEN \* `not message or not message.strip()`: recorded as failed, continue
         [i |-> st.i + 1,
          results |-> Put(st.results, message, FALSE),
          events |-> Append(st.events, <<"skip", message>>)]
    ELSE LET r == send_text(message, channel_id, config, outcome) IN
         [i |-> st.i + 1,
          results |-> Put(st.results, message, r.ret),
          events |-> st.events \o <<<<"send_text", message>>>>
                       \o (IF r.posted THEN <<<<"post", strip(message)>>>> ELSE <<>>)
                       \o (IF st.i < Len(messages) THEN <<<<"sleep", <<>>>>>> ELSE <<>>)]

-----------------------------------------------------------------------------
(* Inputs *)

\* entries of the message lists handed to send_multiple
Entries == {<<>>, <<" ">>, <<"a">>, <<"h">>}
Batches == SeqsUpTo(Entries, MaxBatch)

\* names handed to register_command / unregister_command
Names == {<<>>, <<"a">>, <<"A">>, Unhashable}
\* elements of the alias lists handed to register_command
AliasValues == {<<"a">>, Unhashable}
AliasLists == SeqsUpTo(AliasValues, MaxAliases)
\* permission_level arguments: the three tiers and one out-of-range value
Levels == 0..3

\* prefixes handed to set_command_prefix
Prefixes == {<<>>, <<"!">>, <<" ">>, <<"!", "!">>, <<"!", "!", "!">>,
             <<"!", "!", "!", "!">>}

\* messages handed to parse_command / process_message
Messages == SeqsUpTo(Chars, MaxMsgLen) \cup
            {<<"!", "h">>, <<"!">> \o NameHelp, <<"!">> \o NameTest,
             <<"!", "h", " ", "a">>, <<"!", "h", " ", "A", "!">>} \cup
            {prefix \o NameHelp : prefix \in Prefixes}

\* the aliases of list that the loop of register_command stored
StoredAliases(list) ==
    {list[i] : i \in {j \in DOMAIN list : \A k \in 1..j : list[k] # Unhashable}}

-----------------------------------------------------------------------------
(* Actions *)

InitRouter ==
    /\ commands = register_builtin_commands.commands
    /\ aliases = register_builtin_commands.aliases
    /\ permissions = register_builtin_commands.permissions
    /\ command_prefix = <<"!">>
    /\ command_info = [is_command |-> FALSE]
    /\ op = "__init__"
    /\ ok = TRUE
    /\ result = <<>>
    /\ arg_name = <<>>
    /\ arg_message = <<>>
    /\ arg_user = NoUser
    /\ removed_aliases = {}
    /\ registered_against = {<<a, register_builtin_commands.aliases[a]>> :
                                a \in DOMAIN register_builtin_commands.aliases}
    /\ last_target = register_builtin_commands.aliases

\* the sender before any send_multiple call
InitSender ==
    /\ sm_pc = "idle"
    /\ sm_messages = <<>>
    /\ sm_channel = ChannelNone
    /\ sm_i = 1
    /\ sm_results = EmptyDict
    /\ sm_events = <<>>

Init == InitRouter /\ InitSender /\ config_channel = "chan"

RegisterCommand(name, func, als, permission_level) ==
    LET r == register_command(Registry, name, func, <<>>, <<>>, als, permission_level) IN
    /\ commands' = r.commands
    /\ aliases' = r.aliases
    /\ permissions' = r.permissions
    /\ op' = "register_command"
    /\ ok' = r.ret
    /\ result' = <<>>
    /\ arg_name' = name
    /\ arg_message' = <<>>
    /\ arg_user' = NoUser
    /\ removed_aliases' = {}
    /\ registered_against' =
          IF name = Unhashable THEN registered_against
          ELSE registered_against \cup {<<a, name>> : a \in StoredAliases(als)}
    /\ last_target' =
          IF name = Unhashable THEN last_target
          ELSE [a \in (DOMAIN last_target) \cup StoredAliases(als) |->
                  IF a \in StoredAliases(als) THEN name ELSE last_target[a]]
    /\ UNCHANGED <<command_prefix, command_info>>
    /\ UNCHANGED senderVars

UnregisterCommand(name) ==
    LET r == unregister_command(Registry, name) IN
    /\ commands' = r.commands
    /\ aliases' = r.aliases
    /\ permissions' = r.permissions
    /\ op' = "unregister_command"
    /\ ok' = r.ret
    /\ result' = <<>>
    /\ arg_name' = name
    /\ arg_message' = <<>>
    /\ arg_user' = NoUser
    /\ removed_aliases' =
          IF r.ret THEN {a \in DOMAIN aliases : aliases[a] = name} ELSE {}
    /\ registered_against' =
          IF r.ret THEN {p \in registered_against : p[2] # name} ELSE registered_against
    /\ UNCHANGED <<command_prefix, command_info, last_target>>
    /\ UNCHANGED senderVars

ParseCommand(message) ==
    /\ command_info' = parse_command(command_prefix, aliases, commands, message)
    /\ op' = "parse_command"
    /\ ok' = TRUE
    /\ result' = <<>>
    /\ arg_name' = <<>>
    /\ arg_message' = message
    /\ arg_user' = NoUser
    /\ removed_aliases' = {}
    /\ UNCHANGED <<commands, aliases, permissions, command_prefix,
                   registered_against, last_target>>
    /\ UNCHANGED senderVars

\* the host hands the dict it holds to execute_command
ExecuteCommand(user_info, conn) ==
    /\ result' = execute_command(Registry, command_info, user_info, conn)
    /\ op' = "execute_command"
    /\ ok' = TRUE
    /\ arg_name' = <<>>
    /\ arg_message' = <<>>
    /\ arg_user' = user_info
    /\ removed_aliases' = {}
    /\ UNCHANGED <<commands, aliases, permissions, command_prefix, command_info,
                   registered_against, last_target>>
    /\ UNCHANGED senderVars

ProcessMessage(message, user_info, conn) ==
    /\ result' = process_message(Registry, command_prefix, message, user_info, conn)
    /\ op' = "process_message"
    /\ ok' = TRUE
    /\ arg_name' = <<>>
    /\ arg_message' = <<>>
    /\ arg_user' = NoUser
    /\ removed_aliases' = {}
    /\ UNCHANGED <<commands, aliases, permissions, command_prefix, command_info,
                   registered_against, last_target>>
    /\ UNCHANGED senderVars

SetCommandPrefix(prefix) ==
    LET r == set_command_prefix(command_prefix, prefix) IN
    /\ command_prefix' = r.command_prefix
    /\ op' = "set_command_prefix"
    /\ ok' = r.ret
    /\ result' = <<>>
    /\ arg_name' = <<>>
    /\ arg_message' = <<>>
    /\ arg_user' = NoUser
    /\ removed_aliases' = {}
    /\ UNCHANGED <<commands, aliases, permissions, command_info,
                   registered_against, last_target>>
    /\ UNCHANGED senderVars

\* the call of send_multiple: results = {}, then the for loop
SendMultiple(messages, channel_id) ==
    /\ sm_pc = "idle"
    /\ sm_pc' = IF messages = <<>> THEN "done" ELSE "loop"
    /\ sm_messages' = messages
    /\ sm_channel' = channel_id
    /\ sm_i' = 1
    /\ sm_results' = EmptyDict
    /\ sm_events' = <<>>
    /\ UNCHANGED <<config_channel, routerVars>>

\* one iteration of the for loop; after the last one send_multiple returns sm_results
SendMultipleStep(outcome) ==
    /\ sm_pc = "loop"
    /\ LET st == send_multiple_step([i |-> sm_i, results |-> sm_results,
                                     events |-> sm_events],
                                    sm_messages, sm_channel, config_channel, outcome)
       IN  /\ sm_i' = st.i
           /\ sm_results' = st.results
           /\ sm_events' = st.events
           /\ sm_pc' = IF st.i > Len(sm_messages) THEN "done" ELSE "loop"
    /\ UNCHANGED <<config_channel, sm_messages, sm_channel, routerVars>>

-----------------------------------------------------------------------------
(* Specifications *)

\* the registry under arbitrary register_command / unregister_command calls
Next ==
    \/ \E name \in Names, als \in AliasLists, level \in Levels :
          RegisterCommand(name, "returns", als, level)
    \/ \E name \in Names : UnregisterCommand(name)

Spec == Init /\ [][Next]_vars

\* the router: the host registers and unregisters the command "a" between
\* its calls of parse_command and execute_command
NextRouter ==
    \/ \E func \in HostFuncs, level \in Levels :
          RegisterCommand(<<"a">>, func, <<>>, level)
    \/ UnregisterCommand(<<"a">>)
    \/ \E message \in Messages : ParseCommand(message)
    \/ \E user_info \in UserInfos, conn \in BOOLEAN : ExecuteCommand(user_info, conn)

SpecRouter == Init /\ [][NextRouter]_vars

\* process_message, the entry point of the host, on every registry of the command "a"
NextProcess ==
    \/ \E func \in HostFuncs, level \in Levels :
          RegisterCommand(<<"a">>, func, <<>>, level)
    \/ UnregisterCommand(<<"a">>)
    \/ \E message \in Messages, user_info \in UserInfos, conn \in BOOLEAN :
          ProcessMessage(message, user_info, conn)

SpecProcess == Init /\ [][NextProcess]_vars

\* parsing under every prefix set_command_prefix accepts
NextParse ==
    \/ \E prefix \in Prefixes : SetCommandPrefix(prefix)
    \/ \E message \in Messages : ParseCommand(message)

SpecParse == Init /\ [][NextParse]_vars

\* one send_multiple call, with and without a configured channel
InitSend ==
    /\ InitRouter
    /\ InitSender
    /\ config_channel \in {ChannelNone, "chan"}

NextSend ==
    \/ \E messages \in Batches, channel_id \in ChannelIds :
          SendMultiple(messages, channel_id)
    \/ \E outcome \in Outcomes : SendMultipleStep(outcome)

SpecSend == InitSend /\ [][NextSend]_vars

-----------------------------------------------------------------------------
(* Properties of the registry, checked under Spec *)

\* the calls that change the registry
RegistryOps == {"register_command", "unregister_command"}

\* C1 as stated: after a successful unregister_command(name) the definition of
\* name is gone, and no token that was an alias of name just before the call
\* resolves (alias lookup, then the existence check of parse_command) to a
\* command that is still registered.
C1_NoAliasResolvesAfterUnregister ==
    [][(op' = "unregister_command" /\ ok') =>
          /\ arg_name' \notin DOMAIN commands'
          /\ \A t \in DOMAIN aliases :
                aliases[t] = arg_name' => Resolve(aliases', t) \notin DOMAIN commands']_vars

\* C1 as amended: after a successful unregister_command(name) the definition of
\* name is gone and every token that was an alias of name just before the call
\* is no longer a key of the alias map, so that it resolves to itself: it
\* resolves to a registered command exactly when another command is registered
\* under the token itself.
C1_AliasesRemovedAfterUnregister ==
    [][(op' = "unregister_command" /\ ok') =>
          /\ arg_name' \notin DOMAIN commands'
          /\ \A t \in DOMAIN aliases :
                aliases[t] = arg_name' =>
                   /\ t \notin DOMAIN aliases'
                   /\ Resolve(aliases', t) = t
                   /\ (Resolve(aliases', t) \in DOMAIN commands'
                          <=> (t \in DOMAIN commands /\ t # arg_name'))]_vars

\* C1 witness: unregister_command("A") has just removed the alias "a" of "A"
\* while a command is registered under the name "a"
C1_Witness ==
    /\ op = "unregister_command" /\ ok
    /\ arg_name = <<"A">>
    /\ <<"a">> \in removed_aliases
    /\ <<"a">> \in DOMAIN commands

C7_FailedCallLeavesRegistryUnchanged ==
    [][(op' \in RegistryOps /\ ~ok') =>
          UNCHANGED <<commands, aliases, permissions>>]_vars

\* C8: command names are unique under case-insensitive comparison, and a
\* command registered under any casing of its name is found by parse_command
\* when the typed token matches it case-insensitively.
C8_NamesCaseInsensitive ==
    /\ \A n, m \in DOMAIN commands : lower(n) = lower(m) => n = m
    /\ \A n \in (DOMAIN commands) \ {<<>>} :
          \A typed \in {n, lower(n)} :
             LET info == parse_command(command_prefix, aliases, commands,
                                       command_prefix \o typed)
             IN  info.is_command /\ info.valid

\* C9: every registered definition has a non-empty name and a permission tier
\* in {0, 1, 2}, so that a registration with an empty name or an out-of-range
\* tier creates no definition.
C9_DefinitionsWellFormed ==
    \A n \in DOMAIN commands :
       n # <<>> /\ commands[n].permission_level \in {0, 1, 2}

-----------------------------------------------------------------------------
(* Properties of the router, checked under SpecRouter, SpecProcess and SpecParse *)

\* the caller is present and carries the flag with the value true
HasFlag(user_info, flag) ==
    /\ user_info.present
    /\ flag \in DOMAIN user_info.dict
    /\ user_info.dict[flag]

\* the cases in which the permission check is to pass for a command of the tier
PassesTier(tier, user_info) ==
    \/ tier = 0
    \/ tier = 1 /\ HasFlag(user_info, "is_admin")
    \/ tier = 2 /\ HasFlag(user_info, "is_super_admin")

\* sub occurs in s
Contains(s, sub) ==
    \E i \in 1..(Len(s) - Len(sub) + 1) : SubSeq(s, i, i + Len(sub) - 1) = sub

SuperAdminOnly == [present |-> TRUE,
                   dict |-> [k \in {"is_admin", "is_super_admin"} |-> k = "is_super_admin"]]
AdminOnly == [present |-> TRUE,
              dict |-> [k \in {"is_admin", "is_super_admin"} |-> k = "is_admin"]]
NotAdmin == [present |-> TRUE, dict |-> [k \in {"is_admin"} |-> FALSE]]

\* C3: the permission check passes exactly when the command's tier is 0, or the
\* tier is 1 and the caller is present with is_admin true, or the tier is 2 and
\* the caller is present with is_super_admin true; a super admin who is not an
\* admin is rejected by tier 1 and an admin who is not a super admin by tier 2.
C3_PermissionCheckExact ==
    /\ \A name \in DOMAIN permissions : \A user_info \in UserInfos :
          check_permission(permissions, name, user_info)
             <=> PassesTier(permissions[name], user_info)
    /\ \A name \in DOMAIN permissions :
          /\ permissions[name] = 1 => ~check_permission(permissions, name, SuperAdminOnly)
          /\ permissions[name] = 2 => ~check_permission(permissions, name, AdminOnly)

\* C3 witness: execute_command has just refused the tier-1 command "a" to a
\* caller with is_super_admin=true and is_admin=false
C3_Witness ==
    /\ op = "execute_command"
    /\ arg_user = SuperAdminOnly
    /\ Get(command_info, "valid", FALSE)
    /\ command_info.command_name = <<"a">>
    /\ <<"a">> \in DOMAIN permissions
    /\ permissions[<<"a">>] = 1
    /\ result = PermissionDenied

\* C4: whenever execute_command returns the insufficient-permission string,
\* the command of the invocation is registered at that moment and the caller
\* fails its tier check, whatever register_command / unregister_command calls
\* happened since parse_command produced the invocation.
C4_DeniedOnlyForRegisteredCommand ==
    (op = "execute_command" /\ result = PermissionDenied) =>
       /\ command_info.command_name \in DOMAIN commands
       /\ ~PassesTier(commands[command_info.command_name].permission_level, arg_user)

\* the invocation held by the host is valid, the caller passes the permission
\* check and the handler of the command raises
HandlerRaisesFor(user_info) ==
    /\ Get(command_info, "valid", FALSE)
    /\ check_permission(permissions, command_info.command_name, user_info)
    /\ command_info.command_name \in DOMAIN commands
    /\ commands[command_info.command_name].func = "raises"

\* C5: when the handler of a valid, permitted invocation raises, execute_command
\* returns a string that names the command and the failure, and the registry
\* (commands, aliases, permissions, prefix) is as the handler left it: the
\* handlers of the model do not touch the registry, so it is unchanged.
C5_HandlerFailureContained ==
    [][(op' = "execute_command" /\ HandlerRaisesFor(arg_user')) =>
          /\ Contains(result', command_info.command_name)
          /\ Contains(result', Boom)
          /\ result' # Boom
          /\ UNCHANGED <<commands, aliases, permissions, command_prefix>>]_vars

\* C5 witness: execute_command has just run the raising handler of "a"
C5_Witness ==
    /\ op = "execute_command"
    /\ HandlerRaisesFor(arg_user)
    /\ command_info.command_name = <<"a">>
    /\ result = error_msg(<<"a">>, Boom)

\* C6: process_message returns the empty string when parse_command reports
\* is_command=false, the parse error when the invocation is a command but not
\* valid, and otherwise the result of execute_command on the parsed invocation;
\* "!a" from an absent caller returns "pong" for a tier-0 command "a" whose
\* handler returns "pong", and a caller with is_admin=false gets the
\* permission-denied string for a tier-1 command.
C6_ProcessMessageComposition ==
    /\ \A message \in Messages, user_info \in UserInfos, conn \in BOOLEAN :
          LET info == parse_command(command_prefix, aliases, commands, message)
              out == process_message(Registry, command_prefix, message, user_info, conn)
          IN  /\ ~info.is_command => out = <<>>
              /\ (info.is_command /\ ~info.valid) => out = info.error
              /\ (info.is_command /\ info.valid) =>
                    out = execute_command(Registry, info, user_info, conn)
    /\ \A conn \in BOOLEAN :
          /\ process_message(Registry, command_prefix, <<"a">>, NoUser, conn) = <<>>
          /\ (<<"a">> \in DOMAIN commands /\ <<"a">> \notin DOMAIN aliases) =>
                LET out == process_message(Registry, command_prefix, <<"!", "a">>, NoUser, conn)
                    denied == process_message(Registry, command_prefix, <<"!", "a">>, NotAdmin, conn)
                IN  /\ (permissions[<<"a">>] = 0 /\ commands[<<"a">>].func = "returns")
                       => out = Pong
                    /\ permissions[<<"a">>] = 1 => denied = PermissionDenied
    /\ op = "process_message" =>
          \E message \in Messages, user_info \in UserInfos, conn \in BOOLEAN :
             result = process_message(Registry, command_prefix, message, user_info, conn)

\* C6 witness: process_message has just answered "pong" for the tier-0 command "a"
C6_Witness ==
    /\ op = "process_message"
    /\ <<"a">> \in DOMAIN commands
    /\ permissions[<<"a">>] = 0
    /\ result = Pong

\* the remainder of the message after the prefix, trimmed
Remainder(message, prefix) == strip(SubSeq(message, Len(prefix) + 1, Len(message)))

\* C10 as stated: parse_command reports is_command=true if and only if the
\* trimmed message starts with the prefix and the remainder after the prefix
\* is non-empty after trimming.
C10_IsCommandIffTrimmedMessage ==
    op = "parse_command" =>
       (command_info.is_command <=>
           /\ startswith(strip(arg_message), command_prefix)
           /\ Remainder(strip(arg_message), command_prefix) # <<>>)

\* C10 as amended: parse_command reports is_command=true if and only if the
\* message as given, untrimmed, starts with the prefix and the remainder after
\* the prefix is non-empty after trimming (a message with whitespace before
\* the prefix is not a command).
C10_IsCommandIffMessage ==
    op = "parse_command" =>
       (command_info.is_command <=>
           /\ startswith(arg_message, command_prefix)
           /\ Remainder(arg_message, command_prefix) # <<>>)

\* C10 witness: parse_command has just taken "! a", whose remainder is
\* non-empty only after trimming, as a command
C10_Witness ==
    /\ op = "parse_command"
    /\ arg_message = <<"!", " ", "a">>
    /\ command_prefix = <<"!">>
    /\ command_info.is_command

\* C11: set_command_prefix(p) fails exactly when p is empty or longer than 3
\* characters, and then the prefix is unchanged; on success the prefix becomes
\* p, parse_command(p + "help") on the built-in registry is a valid command
\* with command_name "help", and a message that starts with the previous
\* prefix but not with p is no longer a command.
C11_SetPrefixRoundTrip ==
    [][\A p \in Prefixes :
          SetCommandPrefix(p) =>
             /\ ok' <=> ~(p = <<>> \/ Len(p) > 3)
             /\ ~ok' => command_prefix' = command_prefix
             /\ ok' =>
                   /\ command_prefix' = p
                   /\ LET info == parse_command(command_prefix', aliases', commands',
                                                p \o NameHelp)
                      IN  /\ info.is_command
                          /\ Get(info, "valid", FALSE)
                          /\ info.command_name = NameHelp
                   /\ \A m \in Messages :
                         (startswith(m, command_prefix) /\ ~startswith(m, p)) =>
                            ~parse_command(command_prefix', aliases', commands',
                                           m).is_command]_vars

\* C11 witness: after set_command_prefix("!!!"), parse_command has just taken
\* "!!!help" as the command "help", and "!help" would not be a command
C11_Witness ==
    /\ op = "parse_command"
    /\ command_prefix = <<"!", "!", "!">>
    /\ arg_message = <<"!", "!", "!">> \o NameHelp
    /\ command_info.is_command
    /\ Get(command_info, "valid", FALSE)
    /\ command_info.command_name = NameHelp
    /\ ~parse_command(command_prefix, aliases, commands, <<"!">> \o NameHelp).is_command

-----------------------------------------------------------------------------
(* Properties of the sender, checked under SpecSend *)

\* the entry is empty or whitespace-only
IsBlank(message) == strip(message) = <<>>

\* the messages of the events of the kinds, in order
EventMessages(kinds) ==
    LET sel == SelectSeq(sm_events, LAMBDA e : e[1] \in kinds)
    IN  [k \in DOMAIN sel |-> sel[k][2]]

\* the entries the loop has been through
Handled == SubSeq(sm_messages, 1, sm_i - 1)
NonBlankHandled == SelectSeq(Handled, LAMBDA m : ~IsBlank(m))

\* the channel of the call is resolvable
Resolvable == EffectiveChannel(sm_channel, config_channel) \notin {ChannelNone, ""}

\* C12: for a resolvable channel send_multiple goes through the entries in
\* input order, records each empty or whitespace-only entry as failed without
\* calling send_text, and calls send_text for every other entry whether or not
\* earlier sends failed; the transport is called once per non-empty entry.
C12_EveryNonEmptyEntryAttempted ==
    Resolvable =>
       /\ EventMessages({"skip", "send_text"}) = Handled
       /\ EventMessages({"send_text"}) = NonBlankHandled
       /\ Len(EventMessages({"post"})) = Len(NonBlankHandled)
       /\ \A k \in DOMAIN Handled :
             IsBlank(Handled[k]) => /\ Handled[k] \in DOMAIN sm_results
                                    /\ ~sm_results[Handled[k]]
       /\ sm_pc = "done" => Handled = sm_messages

\* C12 witness: send_multiple(["a", "", "h"]) has returned; the send of "a"
\* failed, the empty entry was skipped and "h" was still sent
C12_Witness ==
    /\ sm_pc = "done"
    /\ Resolvable
    /\ sm_messages = << <<"a">>, <<>>, <<"h">> >>
    /\ ~sm_results[<<"a">>]
    /\ ~sm_results[<<>>]
    /\ sm_results[<<"h">>]
    /\ EventMessages({"post"}) = << <<"a">>, <<"h">> >>

\* the number of the events of the kind
Count(kind) == Len(EventMessages({kind}))

\* C13: in send_multiple the number of pacing delays is
\* max(0, number of attempted sends - 1): a delay follows every send attempt
\* but the last one of the batch, and none follows the last one.
C13_DelaysBetweenSendsOnly ==
    sm_pc = "done" =>
       /\ Count("sleep") = (IF Count("send_text") = 0 THEN 0 ELSE Count("send_text") - 1)
       /\ \A k \in DOMAIN sm_events :
             sm_events[k][1] = "sleep" =>
                \E j \in DOMAIN sm_events : j > k /\ sm_events[j][1] = "send_text"

-----------------------------------------------------------------------------
(* Claims about the registry as a whole *)

\* C14: after construction and after any sequence of register_command /
\* unregister_command calls, every alias of the alias map points to a
\* registered command, the permissions map has exactly the keys of the
\* commands map, and permissions[name] is the permission_level stored in
\* commands[name].
C14_RegistryConsistent ==
    /\ \A a \in DOMAIN aliases : aliases[a] \in DOMAIN commands
    /\ DOMAIN permissions = DOMAIN commands
    /\ \A n \in DOMAIN commands : permissions[n] = commands[n].permission_level

\* C14 witness: unregister_command("A") has just removed the alias "a" of "A",
\* and the command "a", registered by the host with the tier 2, is still there
\* beside the built-in commands and their aliases
C14_Witness ==
    /\ op = "unregister_command" /\ ok
    /\ arg_name = <<"A">>
    /\ <<"a">> \in removed_aliases
    /\ <<"a">> \in DOMAIN commands
    /\ permissions[<<"a">>] = 2
    /\ AliasBangzhu \in DOMAIN aliases

\* the result of parse_command on the message prefix + token
ParseToken(token) ==
    parse_command(command_prefix, aliases, commands, command_prefix \o token)

\* the first half of C15: a token that is the name of a registered command and
\* an alias of another command parses as that other command
C15_AliasShadowsName ==
    \A t \in (DOMAIN commands) \cap (DOMAIN aliases) :
       aliases[t] # t =>
          /\ ParseToken(t).is_command
          /\ ParseToken(t).valid
          /\ ParseToken(t).command_name = aliases[t]

\* the second half of C15: a lower-case registered name that is not a key of
\* the alias map parses as valid, with that name as command_name
C15_UnaliasedNameParses ==
    \A n \in DOMAIN commands :
       (lower(n) = n /\ n \notin DOMAIN aliases) =>
          /\ ParseToken(n).is_command
          /\ ParseToken(n).valid
          /\ ParseToken(n).command_name = n

\* C15: the alias lookup of parse_command takes precedence over the direct
\* name lookup: a token that is both a registered name and an alias of a
\* different command c parses with command_name = c; and a lower-case
\* registered name that is not a key of the alias map always parses as valid
\* with command_name equal to that name.
C15_AliasLookupPrecedesNameLookup ==
    C15_AliasShadowsName /\ C15_UnaliasedNameParses

====
